---- MODULE Spec2Model ----
(***************************************************************************)
(* The demo-site directory scripts: create_company.py, archive_company.py  *)
(* and generate_sites.py, and the manifest assets/sites.json they share.   *)
(*                                                                         *)
(* Spec        runs of the three scripts, one at a time, except that other *)
(*             runs happen while a create run waits on the network         *)
(* SpecSummary the retry loop of openai_summary, one attempt per step      *)
(* SpecConc    two runs interleaved at each access to the folders and to   *)
(*             the manifest file                                           *)
(***************************************************************************)
EXTENDS Integers, Sequences, FiniteSets, TLC

VARIABLES
    file,      \* assets/sites.json: [kind, updated, sites]
    disk,      \* top-level folders of ROOT: name -> "none" | "dir" | "page"
    today,     \* the UTC date of the next run, as a day number (a run a day)
    last,      \* the latest script run: what ran, on what, how it ended
    prev,      \* the manifest as it was before the latest run
    prevOp,    \* the script that ran before the latest run
    nops,      \* number of script runs started so far
    pend,      \* the create run that copied its folder and waits on the network
    sIn,       \* openai_summary: its inputs (key, meta description, title)
    attempt,   \* openai_summary: the loop variable
    calls,     \* openai_summary: requests.post calls made
    sleeps,    \* openai_summary: time.sleep calls made
    slept,     \* openai_summary: the argument of the latest time.sleep, in ms
    lastOut,   \* openai_summary: the latest attempt and the outcome of its request
    sres,      \* openai_summary: [kind, text], kind "idle" | "running" |
               \*   "summary" | "fallback" | "raised"
    pc,        \* concurrent runs: the place each run is at, "start", ...,
               \*   "loaded", "opened", then "done" or "failed"
    op,        \* concurrent runs: the invocation each run performs, with the
               \*   summary a create run got
    snap,      \* concurrent runs: the manifest each run read
    seen,      \* concurrent runs: the folders a regenerate saw
    buf,       \* concurrent runs: the content each run is writing
    orig,      \* concurrent runs: the manifest before either run
    writes     \* concurrent runs: the writes made, in order: [p, over]

vars == <<file, disk, today, last, prev, prevOp, nops, pend, sIn, attempt, calls,
          sleeps, slept, lastOut, sres, pc, op, snap, seen, buf, orig, writes>>
seqVars == <<file, today, last, prev, prevOp, nops, pend>>
sumVars == <<sIn, attempt, calls, sleeps, slept, lastOut, sres>>
concVars == <<pc, op, snap, seen, buf, orig, writes>>

-----------------------------------------------------------------------------
(* Bounds of the model *)

MaxOps == 2        \* script runs in one behaviour

-----------------------------------------------------------------------------
(* Values *)

Absent == "<absent>"     \* a key the JSON object does not have
S3_BASE == "https://sfdcdemoimages.s3.eu-west-1.amazonaws.com"
TEMPLATE_DIR == "company-template"
EXCLUDE == {".github", "assets", "scripts"}

Ids == {"acme", "beta"}
Folders == Ids \cup {"assets", TEMPLATE_DIR}
\* sorted() of the folder names
AlphaOrder == <<"acme", "assets", "beta", "company-template">>

Truthy(v) == v # Absent /\ v # ""

PathOf(slug) == "/" \o slug \o "/"
LogoOf(slug) == S3_BASE \o "/" \o slug \o "/logo.png"
\* d.replace("-", " ").title()
TitleOf(d) ==
    CASE d = "acme" -> "Acme"
      [] d = "beta" -> "Beta"
      [] d = "assets" -> "Assets"
      [] d = "company-template" -> "Company Template"

\* an element of the sites list; obj = FALSE is a JSON value that is not an object
Entry(id, name, path, description, tag, logoUrl, archived) ==
    [obj |-> TRUE, id |-> id, name |-> name, path |-> path,
     description |-> description, tag |-> tag, logoUrl |-> logoUrl,
     archived |-> archived]
Junk ==
    [obj |-> FALSE, id |-> Absent, name |-> Absent, path |-> Absent,
     description |-> Absent, tag |-> Absent, logoUrl |-> Absent,
     archived |-> Absent]
NoEntry == [Junk EXCEPT !.obj = TRUE]    \* the empty dict {}

Manifest(updated, sites) == [kind |-> "ok", updated |-> updated, sites |-> sites]
Malformed(kind) == [kind |-> kind, updated |-> 0, sites |-> <<>>]
\* the file holding no byte, as open(..., "w") leaves it
Empty == Malformed("empty")
\* a content followed by the last two bytes or more of a longer one, which
\* begin with a bracket: json.loads fails with "Extra data"
Torn == Malformed("badjson")

SetMin(S) == CHOOSE x \in S : \A y \in S : x <= y
SetMax(S) == CHOOSE x \in S : \A y \in S : x >= y

ObjIdx(sites) == {i \in 1..Len(sites) : sites[i].obj}
JunkIdx(sites) == {i \in 1..Len(sites) : ~sites[i].obj}
MatchIdx(sites, id) == {i \in ObjIdx(sites) : sites[i].id = id}
IdsOf(sites) == {sites[i].id : i \in ObjIdx(sites)}
UniqueIds(sites) ==
    \A i, j \in ObjIdx(sites) : sites[i].id = sites[j].id => i = j

\* for s in sites: if s.get("id") == x: ...; break
\* 0: no element matches; -1: s.get fails on a non-object first; i: the match
ScanFor(sites, id) ==
    LET m == MatchIdx(sites, id)
        j == JunkIdx(sites)
    IN  IF m # {} /\ (j = {} \/ SetMin(m) < SetMin(j)) THEN SetMin(m)
        ELSE IF j # {} THEN -1
        ELSE 0

-----------------------------------------------------------------------------
(* create_company.py: upsert_sites_json *)

\* lines 352-361: the sites list the upsert starts from
UpsertLoad(f) ==
    CASE f.kind \in {"absent", "empty", "badjson"} ->
            [res |-> "ok", sites |-> <<>>]
      [] f.kind = "notobj" -> [res |-> "AttributeError", sites |-> <<>>]
      [] f.kind = "badsites" -> [res |-> "ok", sites |-> <<>>]
      [] OTHER -> [res |-> "ok", sites |-> f.sites]

\* lines 371: the entry created when none matches
NewEntry(slug) == [NoEntry EXCEPT !.id = slug, !.path = PathOf(slug)]

\* a faulty variant: tag and logoUrl are assigned, not defaulted
UpsertEntryOverwrites(e, slug, name, summary) ==
    [e EXCEPT !.name = name, !.description = summary,
              !.tag = "Demo", !.logoUrl = LogoOf(slug)]

\* lines 374-377: the fields the upsert sets on the entry
UpsertEntry(e, slug, name, summary) ==
    [e EXCEPT !.name = name, !.description = summary,
              !.tag = IF @ = Absent THEN "Demo" ELSE @,
              !.logoUrl = IF @ = Absent THEN LogoOf(slug) ELSE @]

\* a faulty variant: the new entry is appended without looking for the id
UpsertPlaceAppends(sites, slug) ==
    [sites |-> Append(sites, NewEntry(slug)), at |-> Len(sites) + 1]

\* lines 364-372: the list holding the entry to set, and the entry's place
UpsertPlace(sites, slug) ==
    LET k == ScanFor(sites, slug)
    IN  IF k = 0
        THEN [sites |-> Append(sites, NewEntry(slug)), at |-> Len(sites) + 1]
        ELSE [sites |-> sites, at |-> k]

upsert_sites_json(f, slug, name, summary, day) ==
    LET ld == UpsertLoad(f)
    IN  IF ld.res # "ok" THEN [res |-> ld.res, file |-> f]
        ELSE IF ScanFor(ld.sites, slug) = -1
        THEN [res |-> "AttributeError", file |-> f]
        ELSE LET pl == UpsertPlace(ld.sites, slug)
             IN  [res |-> "ok",
                  file |-> Manifest(day,
                      [pl.sites EXCEPT
                          ![pl.at] = UpsertEntry(@, slug, name, summary)])]

-----------------------------------------------------------------------------
(* archive_company.py *)

IssueTitles ==
    {"Archive company: Acme", "restore company: Acme", "Rename company: Acme"}

\* lines 24-28: title.lower().startswith(...)
ActionOfTitle(title) ==
    CASE title = "Archive company: Acme" -> "archive"
      [] title = "restore company: Acme" -> "restore"
      [] OTHER -> Absent

\* lines 21-36; bodyId is the regex's group 1, "" when the body has no match
parse_issue(title, bodyId) ==
    IF ActionOfTitle(title) = Absent \/ bodyId = ""
    THEN [res |-> "ValueError: could not parse", action |-> Absent, id |-> ""]
    ELSE [res |-> "ok", action |-> ActionOfTitle(title), id |-> bodyId]

\* a faulty variant: the date is stamped before the entry is looked up
ArchiveSitesStamps(f, action, id, day) ==
    LET k == ScanFor(f.sites, id)
    IN  IF k = -1 THEN [res |-> "AttributeError", file |-> f]
        ELSE IF k = 0
        THEN [res |-> "ValueError: not found",
              file |-> Manifest(day, f.sites)]
        ELSE [res |-> "ok",
              file |-> Manifest(day, [f.sites EXCEPT ![k].archived =
                          IF action = "archive" THEN "true" ELSE "false"])]

\* lines 53-68, on a manifest whose sites value is a list
ArchiveSites(f, action, id, day) ==
    LET k == ScanFor(f.sites, id)
    IN  IF k = -1 THEN [res |-> "AttributeError", file |-> f]
        ELSE IF k = 0 THEN [res |-> "ValueError: not found", file |-> f]
        ELSE [res |-> "ok",
              file |-> Manifest(day, [f.sites EXCEPT ![k].archived =
                          IF action = "archive" THEN "true" ELSE "false"])]

\* lines 39-71
ArchiveMain(f, title, bodyId, day) ==
    LET p == parse_issue(title, bodyId)
    IN  CASE p.res # "ok" -> [res |-> p.res, file |-> f]
          [] f.kind = "absent" -> [res |-> "FileNotFoundError", file |-> f]
          [] f.kind \in {"empty", "badjson"} ->
                [res |-> "JSONDecodeError", file |-> f]
          [] f.kind = "notobj" -> [res |-> "AttributeError", file |-> f]
          [] f.kind = "badsites" ->
                [res |-> "ValueError: invalid format", file |-> f]
          [] OTHER -> ArchiveSites(f, p.action, p.id, day)

-----------------------------------------------------------------------------
(* generate_sites.py *)

\* a faulty variant: the infrastructure folders are not skipped
DetectAll(d) ==
    SelectSeq(AlphaOrder, LAMBDA n : d[n] = "page")

\* lines 13-22
detect_company_dirs(d) ==
    SelectSeq(AlphaOrder, LAMBDA n : d[n] = "page" /\ n \notin EXCLUDE)

\* lines 25-37: the entry known for an id, {} when none; the whole load
\* yields {} when the file is missing or anything in it fails
load_existing(f, id) ==
    IF f.kind # "ok" \/ JunkIdx(f.sites) # {} \/ MatchIdx(f.sites, id) = {}
    THEN NoEntry
    ELSE f.sites[SetMax(MatchIdx(f.sites, id))]

\* a faulty variant: the archived flag is negated
RegenEntryFlips(old, d) ==
    Entry(d,
          IF Truthy(old.name) THEN old.name ELSE TitleOf(d),
          PathOf(d),
          IF old.description = Absent THEN "" ELSE old.description,
          IF Truthy(old.tag) THEN old.tag ELSE "Demo",
          IF Truthy(old.logoUrl) THEN old.logoUrl ELSE LogoOf(d),
          IF old.archived = "true" THEN "false" ELSE "true")

\* lines 50-59
RegenEntry(old, d) ==
    Entry(d,
          IF Truthy(old.name) THEN old.name ELSE TitleOf(d),
          PathOf(d),
          IF old.description = Absent THEN "" ELSE old.description,
          IF Truthy(old.tag) THEN old.tag ELSE "Demo",
          IF Truthy(old.logoUrl) THEN old.logoUrl ELSE LogoOf(d),
          IF old.archived = "true" THEN "true" ELSE "false")

\* lines 40-62
GenerateMain(f, d, day) ==
    LET dirs == detect_company_dirs(d)
    IN  [res |-> "ok",
         file |-> Manifest(day,
             [i \in 1..Len(dirs) |-> RegenEntry(load_existing(f, dirs[i]), dirs[i])])]

-----------------------------------------------------------------------------
(* create_company.py: openai_summary *)

max_attempts == 5
base_sleep == 1500                       \* 1.5 s, in ms
JitterMs == {0, 750}                     \* random.uniform(0, 0.75), in ms
RetryStatuses == {429, 500, 502, 503, 504}
Statuses == {200, 404, 429, 500, 501, 504}
\* values of the retry-after header; Absent when the response has none
RetryAfterValues == {Absent, "", "2", "-1", "Wed, 21 Oct 2026 07:28:00 GMT"}
\* 2xx bodies: text segments, no text segment, not JSON, a JSON list,
\* {"output": null}
Bodies == {"text", "empty", "notjson", "list", "nulloutput"}
ApiText == "Acme builds demo widgets."
LongMeta == "Acme builds and sells widgets for demo teams everywhere."
ShortMeta == "Acme widgets"

Exc == [kind |-> "exc", status |-> 0, header |-> Absent, body |-> Absent]
Resp(status, header, body) ==
    [kind |-> "resp", status |-> status, header |-> header, body |-> body]
Outcomes ==
    {Exc}
    \cup {Resp(200, Absent, b) : b \in Bodies}
    \cup {Resp(s, h, Absent) : s \in Statuses \ {200}, h \in RetryAfterValues}

RECURSIVE Pow2(_)
Pow2(n) == IF n <= 0 THEN 1 ELSE 2 * Pow2(n - 1)

\* float(retry_after), in ms
FloatOf(h) ==
    CASE h = "2" -> [ok |-> TRUE, ms |-> 2000]
      [] h = "-1" -> [ok |-> TRUE, ms |-> -1000]
      [] OTHER -> [ok |-> FALSE, ms |-> 0]

\* lines 130-136 (the dash of line 135 is written in ASCII)
fallback(in) ==
    IF in.meta # "" /\ Len(in.meta) >= 40 THEN in.meta
    ELSE IF in.title # ""
    THEN in.name \o " - demo environment based on publicly available information."
    ELSE "Demo environment for this company."

\* lines 218, 230
Backoff(n, jitter) == base_sleep * Pow2(n - 1) + jitter

\* lines 228-233: a requests.RequestException on attempt n
OnRequestException(in, n, jitter) ==
    IF n < max_attempts
    THEN [kind |-> "retry", sleep |-> Backoff(n, jitter), text |-> ""]
    ELSE [kind |-> "fallback", sleep |-> -1, text |-> fallback(in)]

\* lines 189-203: a 2xx response; resp.json() raises a RequestException
\* subclass on a body that is not JSON
OnSuccess(in, n, o, jitter) ==
    CASE o.body = "text" -> [kind |-> "summary", sleep |-> -1, text |-> ApiText]
      [] o.body = "empty" -> [kind |-> "fallback", sleep |-> -1, text |-> fallback(in)]
      [] o.body = "notjson" -> OnRequestException(in, n, jitter)
      [] o.body = "list" -> [kind |-> "raised", sleep |-> -1, text |-> "AttributeError"]
      [] OTHER -> [kind |-> "raised", sleep |-> -1, text |-> "TypeError"]

\* lines 206-223: a response with a status of the retry list
OnRetryable(in, n, o, jitter) ==
    LET sleep_s == IF o.header # Absent /\ o.header # "" /\ FloatOf(o.header).ok
                   THEN FloatOf(o.header).ms ELSE -1
        given == o.header # Absent /\ o.header # "" /\ FloatOf(o.header).ok
    IN  IF n < max_attempts
        THEN IF given /\ sleep_s < 0
             THEN [kind |-> "raised", sleep |-> -1, text |-> "ValueError"]
             ELSE [kind |-> "retry",
                   sleep |-> IF given THEN sleep_s ELSE Backoff(n, jitter),
                   text |-> ""]
        ELSE [kind |-> "fallback", sleep |-> -1, text |-> fallback(in)]

\* lines 185-233: one iteration of the loop, on the outcome of requests.post
AttemptStep(in, n, o, jitter) ==
    CASE o.kind = "exc" -> OnRequestException(in, n, jitter)
      [] o.kind = "resp" /\ o.status >= 200 /\ o.status < 300 ->
            OnSuccess(in, n, o, jitter)
      [] o.kind = "resp" /\ o.status \in RetryStatuses ->
            OnRetryable(in, n, o, jitter)
      [] OTHER -> [kind |-> "fallback", sleep |-> -1, text |-> fallback(in)]

\* lines 121-235: the whole call, outs[n] the outcome of the n-th request
RECURSIVE SummaryFrom(_, _, _)
SummaryFrom(in, outs, n) ==
    LET st == AttemptStep(in, n, outs[n], 0)
    IN  IF st.kind = "retry" THEN SummaryFrom(in, outs, n + 1) ELSE st

openai_summary(in, outs) ==
    IF ~in.key
    THEN [kind |-> "fallback", sleep |-> -1, text |-> fallback(in)]
    ELSE SummaryFrom(in, outs, 1)

-----------------------------------------------------------------------------
(* create_company.py: main *)

ReqNames == {"Acme", "ACME", "Beta"}
\* the Website field: absent, "-", a host
Websites == {"", "-", "acme.com"}
\* ISSUE_BODY: empty, or with the Company name and Website fields found in it
IssueBodies ==
    {[empty |-> TRUE, name |-> "", website |-> ""]}
    \cup {[empty |-> FALSE, name |-> n, website |-> w] :
             n \in ReqNames \cup {""}, w \in Websites}

\* lines 41-46
slugify(name) ==
    CASE name = "Acme" -> "acme"
      [] name = "ACME" -> "acme"
      [] name = "Beta" -> "beta"
      [] OTHER -> "company"

\* lines 60-70
parse_issue_body(b) ==
    IF b.name = ""
    THEN [res |-> "ValueError: company name", name |-> "", website |-> ""]
    ELSE [res |-> "ok", name |-> b.name,
          website |-> IF b.website = "-" THEN "" ELSE b.website]

\* what the GET of the website finds: a failure, or a page
NetOutcomes ==
    {[ok |-> FALSE, title |-> "", meta |-> "", og |-> ""],
     [ok |-> TRUE, title |-> "Acme - Home", meta |-> LongMeta,
      og |-> "https://acme.com/og.png"]}

\* lines 73-118; n is the length of the tuple returned
fetch_site_text(url, net) ==
    IF url = ""
    THEN [res |-> "ok", n |-> 3, title |-> "", meta |-> "", og |-> ""]
    ELSE IF ~net.ok
    THEN [res |-> "HTTPError", n |-> 0, title |-> "", meta |-> "", og |-> ""]
    ELSE [res |-> "ok", n |-> 4, title |-> net.title, meta |-> net.meta,
          og |-> net.og]

\* the outcomes of the requests of one openai_summary call
SummaryRuns ==
    {[n \in 1..max_attempts |-> IF n < 2 THEN Exc ELSE b] :
        b \in {Resp(200, Absent, "text"), Resp(200, Absent, "list")}}

\* lines 386-400: main up to the two folder checks; the stages "empty",
\* "parse", "exists" and "template" end the run
CreateCheck(d, b) ==
    LET req == parse_issue_body(b)
        slug == slugify(req.name)
        At(stage, res) ==
            [res |-> res, stage |-> stage, slug |-> slug,
             name |-> req.name, website |-> req.website]
    IN  IF b.empty THEN At("empty", "ok")
        ELSE IF req.res # "ok" THEN At("parse", req.res)
        ELSE IF d[slug] # "none" THEN At("exists", "ok")
        ELSE IF d[TEMPLATE_DIR] = "none"
        THEN At("template", "FileNotFoundError")
        ELSE At("checked", "ok")

\* line 402, shutil.copytree: os.makedirs of the new folder, which fails when
\* the folder is there, then the copy of the template's files
MakeDir(d, slug) ==
    IF d[slug] # "none" THEN [res |-> "FileExistsError", disk |-> d]
    ELSE [res |-> "ok", disk |-> [d EXCEPT ![slug] = "dir"]]
CopyTemplate(d, slug) == [d EXCEPT ![slug] = d[TEMPLATE_DIR]]

\* lines 404-406: fetch_site_text and openai_summary, the calls main waits in
CreateSummary(c, net, key, outs) ==
    LET ft == fetch_site_text(c.website, net)
        sm == openai_summary([key |-> key, meta |-> ft.meta,
                              title |-> ft.title, name |-> c.name], outs)
    IN  IF ft.res # "ok" THEN [stage |-> "fetch", res |-> ft.res, text |-> ""]
        ELSE IF ft.n # 4
        THEN [stage |-> "unpack", text |-> "",
              res |-> "ValueError: not enough values to unpack"]
        ELSE IF sm.kind = "raised"
        THEN [stage |-> "summary", res |-> sm.text, text |-> ""]
        ELSE [stage |-> "summarised", res |-> "ok", text |-> sm.text]

\* lines 413-415: the template's page file is read and the new folder's
\* page file written
CreateRender(d, slug) ==
    IF d[TEMPLATE_DIR] # "page" THEN [res |-> "FileNotFoundError", disk |-> d]
    ELSE [res |-> "ok", disk |-> [d EXCEPT ![slug] = "page"]]

\* lines 413-422: main once the summary is known, sm what CreateSummary
\* returned
CreateFinish(f, d, day, c, sm) ==
    LET rd == CreateRender(d, c.slug)
        up == upsert_sites_json(f, c.slug, c.name, sm.text, day)
        End(stage, res, f2, d2) ==
            [res |-> res, stage |-> stage, file |-> f2, disk |-> d2,
             slug |-> c.slug, name |-> c.name, summary |-> sm.text,
             web |-> c.website]
    IN  IF sm.res # "ok" THEN End(sm.stage, sm.res, f, d)
        ELSE IF rd.res # "ok" THEN End("render", rd.res, f, d)
        ELSE IF up.res # "ok" THEN End("upsert", up.res, f, rd.disk)
        ELSE End("done", "ok", up.file, rd.disk)

\* lines 404-422: main after the copy, c what CreateCheck returned
CreateRest(f, d, day, c, net, key, outs) ==
    CreateFinish(f, d, day, c, CreateSummary(c, net, key, outs))

-----------------------------------------------------------------------------
(* The repository before the first run *)

BareEntry(id) == Entry(id, Absent, Absent, Absent, Absent, Absent, "false")
CustomEntry(id) ==
    Entry(id, "Custom Name", PathOf(id), "A hand-written blurb.", "Partner",
          "https://cdn.example/logo.svg", "true")
BlankEntry(id) == Entry(id, "", PathOf(id), "", "", "", Absent)

InitSites ==
    {<<>>,
     <<BareEntry("acme")>>,
     <<CustomEntry("acme"), BlankEntry("beta")>>,
     <<CustomEntry("beta"), BareEntry("acme")>>,
     <<Junk>>,
     <<BlankEntry("acme"), Junk>>,
     <<Junk, CustomEntry("acme")>>}

InitFiles ==
    {Malformed(k) : k \in {"absent", "badjson", "notobj", "badsites"}}
    \cup {Manifest(0, q) : q \in InitSites}

DiskOf(acme, beta, assets, template) ==
    [n \in Folders |->
        CASE n = "acme" -> acme
          [] n = "beta" -> beta
          [] n = "assets" -> assets
          [] OTHER -> template]

InitDisks ==
    {DiskOf("page", "none", "dir", "page"),
     DiskOf("none", "page", "page", "page"),
     DiskOf("dir", "none", "dir", "none"),
     DiskOf("page", "page", "dir", "page"),
     DiskOf("none", "none", "dir", "dir")}

NoRun ==
    [op |-> "none", res |-> "", stage |-> "", slug |-> "", name |-> "",
     summary |-> "", action |-> "", web |-> ""]
NoOutcome == [n |-> 0, o |-> Exc, jitter |-> 0]
Procs == {1, 2}

NoCreate ==
    [res |-> "", stage |-> "none", slug |-> "", name |-> "", website |-> ""]

SeqIdle ==
    /\ last = NoRun /\ prev = file /\ prevOp = "none" /\ nops = 0
    /\ pend = NoCreate
SumIdle ==
    /\ sIn = [key |-> FALSE, meta |-> "", title |-> "", name |-> "Acme"]
    /\ attempt = 0 /\ calls = 0 /\ sleeps = 0 /\ slept = -1
    /\ lastOut = NoOutcome
    /\ sres = [kind |-> "idle", text |-> ""]
ConcIdle ==
    /\ pc = [p \in Procs |-> "done"]
    /\ op = [p \in Procs |-> NoRun]
    /\ snap = [p \in Procs |-> file]
    /\ seen = [p \in Procs |-> disk]
    /\ buf = [p \in Procs |-> Empty]
    /\ orig = file
    /\ writes = <<>>

-----------------------------------------------------------------------------
(* Spec: the scripts run one at a time; a create run waits between its
   folder copy and its manifest update, and other runs happen meanwhile *)

Init ==
    /\ file \in InitFiles
    /\ disk \in InitDisks
    /\ today = 1
    /\ SeqIdle /\ SumIdle /\ ConcIdle

Ran(o, r) ==
    /\ last' = o
    /\ prev' = file
    /\ prevOp' = last.op
    /\ nops' = nops + 1
    /\ file' = r.file
    /\ today' = today + 1
    /\ UNCHANGED <<pend, sumVars, concVars>>

\* main, lines 386-402: ends the run, or copies the folder and goes on to
\* the network calls
CreateBegin ==
    /\ nops < MaxOps
    /\ pend = NoCreate
    /\ \E b \in IssueBodies :
        LET c == CreateCheck(disk, b)
        IN  IF c.stage = "checked"
            THEN /\ disk' = CopyTemplate(MakeDir(disk, c.slug).disk, c.slug)
                 /\ pend' = c
                 /\ last' = [NoRun EXCEPT !.op = "copy", !.res = c.res,
                                !.stage = "copied", !.slug = c.slug,
                                !.name = c.name, !.web = c.website]
            ELSE /\ disk' = disk
                 /\ pend' = pend
                 /\ last' = [NoRun EXCEPT !.op = "create", !.res = c.res,
                                !.stage = c.stage, !.slug = c.slug,
                                !.name = c.name, !.web = c.website]
    /\ prev' = file
    /\ prevOp' = last.op
    /\ nops' = nops + 1
    /\ today' = today + 1
    /\ UNCHANGED <<file, sumVars, concVars>>

\* main, lines 404-422: the network calls return and the run ends
CreateEnd ==
    /\ pend # NoCreate
    /\ \E net \in NetOutcomes, key \in BOOLEAN, outs \in SummaryRuns :
        LET r == CreateRest(file, disk, today, pend, net, key, outs)
        IN  /\ last' = [NoRun EXCEPT !.op = "create", !.res = r.res,
                           !.stage = r.stage, !.slug = r.slug, !.name = r.name,
                           !.summary = r.summary, !.web = r.web]
            /\ file' = r.file
            /\ disk' = r.disk
    /\ pend' = NoCreate
    /\ prev' = file
    /\ prevOp' = last.op
    /\ today' = today + 1
    /\ UNCHANGED <<nops, sumVars, concVars>>

UpsertArgs == {<<"Acme", ApiText>>, <<"ACME", "Demo environment for this company.">>}

Upsert ==
    /\ nops < MaxOps
    /\ \E slug \in Ids, a \in UpsertArgs :
        LET name == a[1]
            summary == a[2]
            r == upsert_sites_json(file, slug, name, summary, today)
        IN  /\ Ran([NoRun EXCEPT !.op = "upsert", !.res = r.res, !.slug = slug,
                       !.name = name, !.summary = summary], r)
            /\ UNCHANGED disk

Archive ==
    /\ nops < MaxOps
    /\ \E title \in IssueTitles, id \in Ids \cup {""} :
        LET r == ArchiveMain(file, title, id, today)
        IN  /\ Ran([NoRun EXCEPT !.op = "archive", !.res = r.res, !.slug = id,
                       !.action = ActionOfTitle(title)], r)
            /\ UNCHANGED disk

Regenerate ==
    /\ nops < MaxOps
    /\ LET r == GenerateMain(file, disk, today)
       IN  /\ Ran([NoRun EXCEPT !.op = "regen", !.res = r.res], r)
           /\ UNCHANGED disk

Next == CreateBegin \/ CreateEnd \/ Upsert \/ Archive \/ Regenerate

Spec == Init /\ [][Next]_vars

-----------------------------------------------------------------------------
(* SpecSummary: one openai_summary call, an attempt per step *)

SummaryInputs ==
    {[key |-> k, meta |-> pg[2], title |-> pg[1], name |-> "Acme"] :
        k \in BOOLEAN,
        pg \in {<<"", "">>, <<"Acme - Home", ShortMeta>>,
                <<"Acme - Home", LongMeta>>, <<"", LongMeta>>}}

InitSummary ==
    /\ file = Malformed("absent")
    /\ disk = DiskOf("none", "none", "dir", "page")
    /\ today = 1
    /\ SeqIdle /\ ConcIdle
    /\ sIn \in SummaryInputs
    /\ attempt = 0 /\ calls = 0 /\ sleeps = 0 /\ slept = -1
    /\ lastOut = NoOutcome
    /\ sres = [kind |-> "idle", text |-> ""]

\* lines 138-140, 184
SumStart ==
    /\ sres.kind = "idle"
    /\ IF sIn.key
       THEN /\ sres' = [kind |-> "running", text |-> ""]
            /\ attempt' = 1
       ELSE /\ sres' = [kind |-> "fallback", text |-> fallback(sIn)]
            /\ attempt' = attempt
    /\ UNCHANGED <<sIn, calls, sleeps, slept, lastOut, seqVars, disk, concVars>>

\* lines 185-233
SumAttempt ==
    /\ sres.kind = "running"
    /\ attempt <= max_attempts
    /\ \E o \in Outcomes, jitter \in JitterMs :
        LET st == AttemptStep(sIn, attempt, o, jitter)
        IN  /\ calls' = calls + 1
            /\ lastOut' = [n |-> attempt, o |-> o, jitter |-> jitter]
            /\ IF st.kind = "retry"
               THEN /\ sleeps' = sleeps + 1
                    /\ slept' = st.sleep
                    /\ attempt' = attempt + 1
                    /\ sres' = sres
               ELSE /\ sres' = [kind |-> st.kind, text |-> st.text]
                    /\ UNCHANGED <<sleeps, slept, attempt>>
    /\ UNCHANGED <<sIn, seqVars, disk, concVars>>

NextSummary == SumStart \/ SumAttempt

SpecSummary == InitSummary /\ [][NextSummary]_vars

-----------------------------------------------------------------------------
(* SpecConc: two runs interleaved at each access to the folders and to the
   manifest file *)

\* the invocations; web is the Website field of a create request
ConcOps ==
    {[NoRun EXCEPT !.op = "upsert", !.slug = id, !.name = "Acme",
                   !.summary = ApiText] : id \in Ids}
    \cup {[NoRun EXCEPT !.op = "archive", !.slug = id,
                        !.action = "Archive company: Acme"] : id \in Ids}
    \cup {[NoRun EXCEPT !.op = "archive", !.slug = "acme",
                        !.action = "restore company: Acme"]}
    \cup {[NoRun EXCEPT !.op = "regen"]}
    \cup {[NoRun EXCEPT !.op = "create", !.slug = "acme", !.name = "ACME",
                        !.web = "acme.com"]}

BodyOf(o) == [empty |-> FALSE, name |-> o.name, website |-> o.web]

\* what invocation o computes from the manifest f it read and, for a
\* regenerate, the folders d it saw; a create run is at its upsert
ApplyOp(o, f, d, day) ==
    CASE o.op \in {"upsert", "create"} ->
            upsert_sites_json(f, o.slug, o.name, o.summary, day)
      [] o.op = "archive" -> ArchiveMain(f, o.action, o.slug, day)
      [] OTHER -> GenerateMain(f, d, day)

\* a variant with isolation: the content is computed from the file as it is
\* when the run opens it for writing
WrittenUnderLock(o, snapshot, current, d, day) ==
    ApplyOp(o, current, d, day).file

\* the argument of write_text: computed from what the run read
WrittenContent(o, snapshot, current, d, day) ==
    ApplyOp(o, snapshot, d, day).file

\* the bytes of one "key": value line of json.dumps(..., indent=2) in an
\* entry, with the separator that follows it; nothing for an absent key
FieldSize(key, v, quoted) ==
    IF v = Absent THEN 0
    ELSE 6 + Len(key) + 4 + Len(v) + (IF quoted THEN 2 ELSE 0) + 2

\* the bytes of an element of sites; one that is no object is taken as null
EntrySize(e) ==
    LET n == FieldSize("id", e.id, TRUE) + FieldSize("name", e.name, TRUE)
             + FieldSize("path", e.path, TRUE)
             + FieldSize("description", e.description, TRUE)
             + FieldSize("tag", e.tag, TRUE)
             + FieldSize("logoUrl", e.logoUrl, TRUE)
             + FieldSize("archived", e.archived, FALSE)
    IN  IF ~e.obj THEN 8 ELSE IF n = 0 THEN 6 ELSE n + 10

RECURSIVE SitesSize(_)
SitesSize(sites) ==
    IF sites = <<>> THEN 0
    ELSE EntrySize(Head(sites)) + 2 + SitesSize(Tail(sites))

\* len(json.dumps(data, indent=2, ensure_ascii=False) + "\n") of a manifest
\* a run writes (updated a date of 10 characters, ASCII strings)
Size(f) ==
    IF f.kind = "empty" THEN 0
    ELSE 43 + (IF f.sites = <<>> THEN 2 ELSE SitesSize(f.sites) + 4)

\* the file after a write of content at offset 0 by a handle opened before
\* current was written: bytes beyond the content stay. One byte left over is
\* the final newline of current, and the file reads as the content does
\* (json.loads skips the second newline); more bytes make it unparseable
Overlay(content, current) ==
    IF Size(current) <= Size(content) + 1 THEN content ELSE Torn

InitConc ==
    /\ file \in InitFiles
    /\ disk \in InitDisks
    /\ today = 1
    /\ SeqIdle /\ SumIdle
    /\ pc = [p \in Procs |-> "start"]
    /\ op \in [Procs -> ConcOps]
    /\ snap = [p \in Procs |-> file]
    /\ seen = [p \in Procs |-> disk]
    /\ buf = [p \in Procs |-> Empty]
    /\ orig = file
    /\ writes = <<>>

\* create_company.main, lines 386-400
Check(p) ==
    /\ pc[p] = "start" /\ op[p].op = "create"
    /\ LET c == CreateCheck(disk, BodyOf(op[p]))
       IN  pc' = [pc EXCEPT ![p] =
                    CASE c.stage = "checked" -> "checked"
                      [] c.res = "ok" -> "done"
                      [] OTHER -> "failed"]
    /\ UNCHANGED <<file, disk, op, snap, seen, buf, orig, writes, seqVars, sumVars>>

\* shutil.copytree, line 402: the new folder is made
Mkdir(p) ==
    /\ pc[p] = "checked"
    /\ LET m == MakeDir(disk, op[p].slug)
       IN  /\ disk' = m.disk
           /\ pc' = [pc EXCEPT ![p] = IF m.res = "ok" THEN "made" ELSE "failed"]
    /\ UNCHANGED <<file, op, snap, seen, buf, orig, writes, seqVars, sumVars>>

\* shutil.copytree, line 402: the template's files are copied
CopyFiles(p) ==
    /\ pc[p] = "made"
    /\ disk' = CopyTemplate(disk, op[p].slug)
    /\ pc' = [pc EXCEPT ![p] = "copied"]
    /\ UNCHANGED <<file, op, snap, seen, buf, orig, writes, seqVars, sumVars>>

\* create_company.main, lines 404-415: the network calls return and the
\* page is rendered
Summarise(p) ==
    /\ pc[p] = "copied"
    /\ \E net \in NetOutcomes, key \in BOOLEAN, outs \in SummaryRuns :
        LET sm == CreateSummary(parse_issue_body(BodyOf(op[p])), net, key, outs)
            rd == CreateRender(disk, op[p].slug)
            ok == sm.res = "ok" /\ rd.res = "ok"
        IN  /\ disk' = IF ok THEN rd.disk ELSE disk
            /\ op' = [op EXCEPT ![p].summary = sm.text]
            /\ pc' = [pc EXCEPT ![p] = IF ok THEN "ready" ELSE "failed"]
    /\ UNCHANGED <<file, snap, seen, buf, orig, writes, seqVars, sumVars>>

\* generate_sites.main, line 44: detect_company_dirs
Scan(p) ==
    /\ pc[p] = "start" /\ op[p].op = "regen"
    /\ seen' = [seen EXCEPT ![p] = disk]
    /\ pc' = [pc EXCEPT ![p] = "ready"]
    /\ UNCHANGED <<file, disk, op, snap, buf, orig, writes, seqVars, sumVars>>

\* exists and read_text, and the computation up to the write or the failure
Load(p) ==
    /\ \/ pc[p] = "ready"
       \/ pc[p] = "start" /\ op[p].op \in {"upsert", "archive"}
    /\ snap' = [snap EXCEPT ![p] = file]
    /\ pc' = [pc EXCEPT ![p] =
                IF ApplyOp(op[p], file, seen[p], today).res = "ok"
                THEN "loaded" ELSE "failed"]
    /\ UNCHANGED <<file, disk, op, seen, buf, orig, writes, seqVars, sumVars>>

\* write_text: json.dumps, then open(..., "w"), which truncates the file
Open(p) ==
    /\ pc[p] = "loaded"
    /\ buf' = [buf EXCEPT ![p] =
                  WrittenContent(op[p], snap[p], file, seen[p], today)]
    /\ file' = Empty
    /\ pc' = [pc EXCEPT ![p] = "opened"]
    /\ UNCHANGED <<disk, today, last, prev, prevOp, nops, pend, op, snap, seen,
                   orig, writes, sumVars>>

\* write_text: the content is written at the start of the file and the file
\* closed; over tells that the other run wrote since this one opened the file
Write(p) ==
    /\ pc[p] = "opened"
    /\ file' = Overlay(buf[p], file)
    /\ writes' = Append(writes, [p |-> p, over |-> file # Empty])
    /\ pc' = [pc EXCEPT ![p] = "done"]
    /\ UNCHANGED <<disk, today, last, prev, prevOp, nops, pend, op, snap, seen,
                   buf, orig, sumVars>>

NextConc ==
    \E p \in Procs :
        \/ Check(p) \/ Mkdir(p) \/ CopyFiles(p) \/ Summarise(p)
        \/ Scan(p) \/ Load(p) \/ Open(p) \/ Write(p)

SpecConc == InitConc /\ [][NextConc]_vars

-----------------------------------------------------------------------------
(* Properties *)

\* the sites of a manifest as a reader that tolerates anything sees them
SitesOf(f) == IF f.kind = "ok" THEN f.sites ELSE <<>>
WellFormed(f) == f.kind = "ok" /\ JunkIdx(f.sites) = {}
UpsertRan ==
    \/ last.op = "upsert" /\ last.res = "ok"
    \/ last.op = "create" /\ last.stage = "done"
ArchiveRan == last.op = "archive" /\ last.action # Absent /\ last.slug # ""
\* the place of a name in alphabetical order
Rank(n) == CHOOSE i \in 1..Len(AlphaOrder) : AlphaOrder[i] = n
CompanyFolders == {n \in Folders : disk[n] = "page" /\ n \notin EXCLUDE}

\* C1: a create run whose request has no website (the field absent, or "-")
\* that got as far as copying the template, a folder with a page file, ends
\* with success and with a manifest entry for the slug.
C1_NoWebsiteRunSucceeds ==
    (/\ last.op = "create"
     /\ last.web = ""
     /\ last.stage \notin {"empty", "parse", "exists", "template"}
     /\ disk[TEMPLATE_DIR] = "page")
    => /\ last.res = "ok"
       /\ last.stage = "done"
       /\ last.slug \in IdsOf(SitesOf(file))

\* C2: openai_summary never raises, makes at most 5 endpoint calls, and with
\* no API key makes none and returns the fallback.
C2_SummaryNeverRaises ==
    /\ sres.kind # "raised"
    /\ calls <= max_attempts
    /\ ~sIn.key => calls = 0 /\ sres.kind \in {"idle", "fallback"}

\* C3: an archive or restore run on an id that matches no entry of the
\* manifest fails, with "not found" when the manifest is well formed, and
\* leaves the manifest file as it was (entries and updated date).
C3_UnknownIdNotFound ==
    (ArchiveRan /\ last.slug \notin IdsOf(SitesOf(prev)))
    => /\ last.res # "ok"
       /\ file = prev
       /\ WellFormed(prev) => last.res = "ValueError: not found"

C3_Witness ==
    /\ ArchiveRan
    /\ last.res = "ValueError: not found"
    /\ Len(prev.sites) = 2
    /\ prev.updated # today - 1

\* C4: an upsert sets the name and description of the slug's entry to its
\* arguments, keeps the entry's tag and logoUrl when the key was there
\* (defaults "Demo" and the slug's logo URL only for an absent key), keeps
\* its other fields, and leaves every other element of the list as it was.
C4_UpsertKeepsTagAndLogo ==
    UpsertRan =>
        LET old == SitesOf(prev)
            k == ScanFor(old, last.slug)
            at == IF k = 0 THEN Len(old) + 1 ELSE k
            was == IF k = 0 THEN NewEntry(last.slug) ELSE old[k]
            now == file.sites[at]
        IN  /\ file.kind = "ok"
            /\ Len(file.sites) = IF k = 0 THEN Len(old) + 1 ELSE Len(old)
            /\ now.id = last.slug
            /\ now.name = last.name
            /\ now.description = last.summary
            /\ now.tag = IF was.tag = Absent THEN "Demo" ELSE was.tag
            /\ now.logoUrl =
                  IF was.logoUrl = Absent THEN LogoOf(last.slug) ELSE was.logoUrl
            /\ now.path = was.path /\ now.archived = was.archived
            /\ \A j \in 1..Len(old) : j # at => file.sites[j] = old[j]

\* two upserts in a row on the same slug, with different names, on an entry
\* whose tag and logoUrl had been set by hand
C4_Witness ==
    /\ last.op = "upsert" /\ last.res = "ok" /\ prevOp = "upsert"
    /\ \E i \in 1..Len(file.sites) :
        /\ file.sites[i].id = last.slug
        /\ file.sites[i].tag = "Partner"
        /\ file.sites[i].logoUrl = "https://cdn.example/logo.svg"
        /\ file.sites[i].name = last.name
        /\ prev.sites[i].name \in {"Acme", "ACME"} \ {last.name}

\* C5: after regenerate the entries are exactly the top-level folders that
\* hold a page file and are not infrastructure folders, one per folder, in
\* alphabetical order; an entry without such a folder is dropped; a retained
\* id keeps its known (loaded and non-empty) name, tag and logoUrl, its
\* description and its archived flag, and gets the defaults otherwise.
C5_RegenerateResyncs ==
    last.op = "regen" =>
        /\ file.kind = "ok"
        /\ JunkIdx(file.sites) = {}
        /\ IdsOf(file.sites) = CompanyFolders
        /\ Len(file.sites) = Cardinality(CompanyFolders)
        /\ \A i, j \in 1..Len(file.sites) :
              i < j => Rank(file.sites[i].id) < Rank(file.sites[j].id)
        /\ \A i \in 1..Len(file.sites) :
              LET e == file.sites[i]
                  known == WellFormed(prev) /\ e.id \in IdsOf(prev.sites)
                  old == IF known
                         THEN prev.sites[CHOOSE n \in MatchIdx(prev.sites, e.id) : TRUE]
                         ELSE NoEntry
              IN  /\ e.path = PathOf(e.id)
                  /\ e.name = IF Truthy(old.name) THEN old.name ELSE TitleOf(e.id)
                  /\ e.tag = IF Truthy(old.tag) THEN old.tag ELSE "Demo"
                  /\ e.logoUrl =
                        IF Truthy(old.logoUrl) THEN old.logoUrl ELSE LogoOf(e.id)
                  /\ e.description =
                        IF old.description = Absent THEN "" ELSE old.description
                  /\ e.archived = IF old.archived = "true" THEN "true" ELSE "false"

\* a regenerate that drops one entry and retains an archived, hand-tagged one
C5_Witness ==
    /\ last.op = "regen"
    /\ WellFormed(prev)
    /\ \E i \in 1..Len(prev.sites) : prev.sites[i].id \notin IdsOf(file.sites)
    /\ \E i \in 1..Len(file.sites) :
        /\ file.sites[i].archived = "true"
        /\ file.sites[i].tag = "Partner"
        /\ file.sites[i].id \in IdsOf(prev.sites)

\* C6: a regenerate that follows a regenerate, the folders unchanged, writes
\* the same entries in the same order; only the updated date may differ.
C6_RegenerateIdempotent ==
    (last.op = "regen" /\ prevOp = "regen")
    => /\ file.kind = prev.kind
       /\ file.sites = prev.sites

C6_Witness ==
    /\ last.op = "regen" /\ prevOp = "regen"
    /\ file.updated # prev.updated
    /\ \E i \in 1..Len(file.sites) :
        file.sites[i].tag = "Partner" /\ file.sites[i].archived = "true"
    /\ \E i \in 1..Len(file.sites) : file.sites[i].tag = "Demo"

\* C7: an upsert on a missing or malformed manifest (not JSON, not an
\* object, sites not a list, a sites element not an object) does not fail
\* and writes a manifest holding just the new entry; an archive or restore
\* run on the same manifest fails.
C7_UpsertToleratesMalformed ==
    /\ (last.op = "upsert" /\ ~WellFormed(prev))
       => /\ last.res = "ok"
          /\ file.kind = "ok"
          /\ Len(file.sites) = 1
          /\ file.sites[1].id = last.slug
          /\ file.sites[1].name = last.name
    /\ (ArchiveRan /\ ~WellFormed(prev)) => last.res # "ok"

\* C8: a response with status 429 or 5xx on attempt n < 5 is followed by one
\* sleep, of the numeric retry-after value or else of the backoff
\* 1.5 * 2^(n-1) plus the jitter, and by attempt n + 1; on attempt 5 it is
\* followed by the fallback and by no sleep. (Stated of the calls that do
\* not raise.)
C8_RetryableSleepsThenRetries ==
    (/\ lastOut.n >= 1
     /\ lastOut.o.kind = "resp"
     /\ (lastOut.o.status = 429 \/ lastOut.o.status \in 500..599)
     /\ sres.kind # "raised")
    => IF lastOut.n < max_attempts
       THEN /\ sres.kind = "running"
            /\ attempt = lastOut.n + 1
            /\ sleeps = lastOut.n
            /\ slept = IF FloatOf(lastOut.o.header).ok
                       THEN FloatOf(lastOut.o.header).ms
                       ELSE base_sleep * Pow2(lastOut.n - 1) + lastOut.jitter
       ELSE /\ sres.kind = "fallback"
            /\ sleeps = max_attempts - 1

\* C9: when both runs read the manifest before either opened it for
\* writing and both succeed, the manifest is what the later writer computed
\* from the manifest as it was before the two runs: the earlier update is
\* not in it. (A file once opened for writing never holds the original
\* content again, so a run read before every write when it read that
\* content.) When the later write started before the earlier ended, the
\* bytes of a longer earlier content that lie beyond the later one stay:
\* two or more of them make the manifest unparseable.
C9_LastWriterWins ==
    (/\ \A p \in Procs : pc[p] = "done"
     /\ Len(writes) = 2
     /\ \A p \in Procs : snap[p] = orig)
    => LET w == writes[2].p
           later == ApplyOp(op[w], orig, seen[w], today).file
           earlier == ApplyOp(op[writes[1].p], orig, seen[writes[1].p], today).file
       IN  file = IF writes[2].over /\ Size(earlier) > Size(later) + 1
                  THEN Torn ELSE later

\* both runs report success, both read before either wrote, the writes
\* followed one another, and the entry the earlier writer created is not
\* in the manifest
C9_Witness ==
    /\ \A p \in Procs : pc[p] = "done"
    /\ Len(writes) = 2
    /\ \A p \in Procs : snap[p] = orig
    /\ ~writes[2].over
    /\ op[writes[1].p].op = "upsert"
    /\ op[writes[2].p].op = "archive"
    /\ op[writes[1].p].slug \notin IdsOf(file.sites)
    /\ file # ApplyOp(op[writes[2].p],
                      ApplyOp(op[writes[1].p], orig, disk, today).file,
                      disk, today).file

\* C10: no two entries of the manifest share an id, and a run that is not a
\* regenerate keeps the id of every element at its place.
C10_IdsUnique ==
    /\ UniqueIds(SitesOf(file))
    /\ (last.op \in {"upsert", "archive", "create"} /\ file.kind = "ok")
       => \A i \in 1..Len(SitesOf(prev)) :
             /\ i <= Len(file.sites)
             /\ file.sites[i].id = prev.sites[i].id
    /\ last.op = "regen" => IdsOf(file.sites) \subseteq Folders

\* an upsert of an id the manifest of two entries already has
C10_Witness ==
    /\ nops = 2
    /\ last.op = "upsert" /\ last.res = "ok"
    /\ Len(file.sites) = 2
    /\ Len(prev.sites) = 2
    /\ last.slug \in IdsOf(prev.sites)

====
